---- MODULE Spec2Model ----
(***************************************************************************)
(* The RevenueCat webhook handler (supabase/functions/revenuecat-webhook): *)
(* method and authorization checks, event classification, the four         *)
(* permission-record handlers on the user_permissions table, and the       *)
(* un-awaited insights trigger; and the insights generator                 *)
(* (supabase/functions/analyze-golf-performance) the trigger calls, which  *)
(* reads the same table to tell premium users from free ones.              *)
(*                                                                         *)
(* A request advances in the steps the handler's awaits cut it into:       *)
(*   receipt   - everything up to the first store await (method check,     *)
(*               authorization, body parsing, field extraction, switch);   *)
(*   StoreRead - the handler's select ... maybeSingle() and the code up to *)
(*               the upsert call;                                          *)
(*   StoreWrite- the upsert, the trigger launch and the response.          *)
(* The launched trigger settles on its own (TriggerSettle).                *)
(*                                                                         *)
(* The client purchase service (src/services/purchaseService.js) is the    *)
(* third part: its module state and its async operations, cut at their     *)
(* awaits of the purchases SDK (SpecClient).                               *)
(***************************************************************************)
EXTENDS Integers, Sequences, FiniteSets, TLC

VARIABLES
    expectedAuth,   \* Deno.env REVENUECAT_AUTH_HEADER, fixed at start
    store,          \* the rows of user_permissions
    inflight,       \* slot -> the request being served in it ({} when idle)
    pending,        \* user -> outbound insights calls launched, not settled
    now,            \* the clock new Date() reads (ms since the epoch); it
                    \* advances between any two upserts
    nreq,           \* requests received so far
    done,           \* the request that completed last ({} once another is accepted)
    insight,        \* the insights request answered last ({} once the webhook
                    \* has taken a step since)
    apiKey,         \* purchaseService: the platform's RevenueCat API key in
                    \* Constants.expoConfig.extra, fixed by the build
    isConfigured,   \* purchaseService: let isConfigured
    currentUserId,  \* purchaseService: let currentUserId
    lastDiagnosticResult,   \* purchaseService: let lastDiagnosticResult
                    \* ({} when null)
    calls,          \* purchaseService: call slot -> the async call suspended
                    \* at an await of the SDK ({} when free)
    ncalls,         \* purchaseService: calls made so far
    loggedOut,      \* purchaseService: cleanupPurchases has run and no
                    \* initializePurchases call was started since
    outcome         \* purchaseService: the call the last step completed
                    \* ({} when the step completed none)

webhookVars == <<expectedAuth, store, inflight, pending, now, nreq, done, insight>>

clientVars ==
    <<apiKey, isConfigured, currentUserId, lastDiagnosticResult, calls, ncalls,
      loggedOut, outcome>>

vars ==
    <<expectedAuth, store, inflight, pending, now, nreq, done, insight,
      apiKey, isConfigured, currentUserId, lastDiagnosticResult, calls, ncalls,
      loggedOut, outcome>>

----------------------------------------------------------------------------
(* Bounds of the model *)

MaxRequests == 2

\* Calls of the purchase service made by the app
MaxCalls == 3

----------------------------------------------------------------------------
(* Values *)

Null == "<null>"            \* JSON null / SQL NULL / a missing header
Undefined == "<undefined>"  \* a JS undefined: an absent property

Secret == "whsec_1"
AuthHeaders == {Null, "wrong-secret", Secret}
Methods == {"OPTIONS", "GET", "POST"}

Users == {"u1"}
PremiumEntitlement == "product_a"
Slots == {1, 2}

\* purchaseService: the async calls that may be suspended at the same time
Calls == {1, 2}
ApiKeys == {Undefined, "appl_key"}

\* enum EventType
INITIAL_PURCHASE == "INITIAL_PURCHASE"
RENEWAL == "RENEWAL"
CANCELLATION == "CANCELLATION"
EXPIRATION == "EXPIRATION"
PRODUCT_CHANGE == "PRODUCT_CHANGE"
BILLING_ISSUE == "BILLING_ISSUE"
NON_RENEWING_PURCHASE == "NON_RENEWING_PURCHASE"
EventType == {INITIAL_PURCHASE, RENEWAL, CANCELLATION, EXPIRATION,
              PRODUCT_CHANGE, BILLING_ISSUE, NON_RENEWING_PURCHASE}
ActivationTypes == {INITIAL_PURCHASE, RENEWAL, NON_RENEWING_PURCHASE, PRODUCT_CHANGE}
UnknownTypes == {"TRANSFER"}

AllTypes == EventType \cup UnknownTypes

\* interface RequestPayload.event; expiration_at_ms 0 stands for null (both
\* are falsy where the handler tests it), the other values are epoch ms.
Event(t, u, e, o, x) ==
    [type |-> t, original_app_user_id |-> u, product_id |-> o[1],
     entitlement_ids |-> e, environment |-> "PRODUCTION",
     expiration_at_ms |-> x, transaction_id |-> o[3], store |-> o[2]]

EntitlementLists == {<<>>, <<"product_a">>, <<"product_b">>}

\* The events delivered. The fields a handler never reads (the product, store
\* and transaction of a CANCELLATION; those and the expiration of the other
\* non-activation events) take one value each.
Events ==
    { Event(t, u, e, ox[1], ox[2]) :
        t \in ActivationTypes, u \in Users, e \in EntitlementLists,
        ox \in {<<(<<"p1", "APP_STORE", "t1">>), 86400000>>,
                 <<(<<"p1", "APP_STORE", "t1">>), 0>>,
                 <<(<<"p2", "play_store", "t2">>), 1893456789>>} }
    \cup { Event(CANCELLATION, u, e, <<"p2", "play_store", "t2">>, x) :
        u \in Users, e \in EntitlementLists, x \in {0, 86400000, 1893456789} }
    \cup { Event(t, u, e, <<"p2", "play_store", "t2">>, 1893456789) :
        t \in {EXPIRATION, BILLING_ISSUE} \cup UnknownTypes,
        u \in Users, e \in EntitlementLists }

\* One event of each kind for the key (u1, product_a): a purchase, a product
\* change, a cancellation, an expiration, a billing issue, an unknown type
KeyEvents ==
    {e \in Events : /\ e.entitlement_ids = <<"product_a">>
                     /\ e.expiration_at_ms = 1893456789
                     /\ e.type \in {INITIAL_PURCHASE, PRODUCT_CHANGE, CANCELLATION,
                                     EXPIRATION, BILLING_ISSUE} \cup UnknownTypes}

\* What can be wrong with a body: it is no JSON, the envelope has no event
\* object, or the event has no store field.
BodyDefects == {"malformed", "noevent", "nostore"}

----------------------------------------------------------------------------
(* Pure conversions *)

Pad2(n) == IF n < 10 THEN "0" \o ToString(n) ELSE ToString(n)

Pad3(n) == IF n < 10 THEN "00" \o ToString(n)
           ELSE IF n < 100 THEN "0" \o ToString(n) ELSE ToString(n)

\* Date.prototype.toISOString of the instant ms (0 <= ms): the proleptic
\* Gregorian date of the day, then the time of day, in UTC.
DateToISOString(ms) ==
    LET days == ms \div 86400000
        rem  == ms % 86400000
        z    == days + 719468
        era  == z \div 146097
        doe  == z - era * 146097
        yoe  == (doe - doe \div 1460 + doe \div 36524 - doe \div 146096) \div 365
        doy  == doe - (365 * yoe + yoe \div 4 - yoe \div 100)
        mp   == (5 * doy + 2) \div 153
        d    == doy - (153 * mp + 2) \div 5 + 1
        m    == IF mp < 10 THEN mp + 3 ELSE mp - 9
        y    == yoe + era * 400 + (IF m <= 2 THEN 1 ELSE 0)
    IN  ToString(y) \o "-" \o Pad2(m) \o "-" \o Pad2(d) \o "T"
        \o Pad2(rem \div 3600000) \o ":" \o Pad2((rem % 3600000) \div 60000)
        \o ":" \o Pad2((rem % 60000) \div 1000) \o "." \o Pad3(rem % 1000) \o "Z"

\* A conversion without the null test: a missing expiration becomes the epoch
ExpirationString_OfEpoch(expirationMs) == DateToISOString(expirationMs)

\* expirationMs ? new Date(expirationMs) : null, then
\* expiresAt ? expiresAt.toISOString() : null
ExpirationString(expirationMs) ==
    IF expirationMs # 0 THEN DateToISOString(expirationMs) ELSE Null

\* The store name left as the event spells it
ToLowerCase_Identity(s) == s

\* String.prototype.toLowerCase on the store names
ToLowerCase(s) ==
    CASE s = "APP_STORE" -> "app_store"
      [] s = "PLAY_STORE" -> "play_store"
      [] OTHER -> s

\* eventData.entitlement_ids?.[0] || "product_a"
EntitlementId(ev) ==
    IF Len(ev.entitlement_ids) > 0 THEN ev.entitlement_ids[1] ELSE "product_a"

\* A metadata map built from the new entries alone
Spread_NewOnly(a, b) == b

\* { ...a, ...b }
Spread(a, b) ==
    [k \in DOMAIN a \cup DOMAIN b |-> IF k \in DOMAIN b THEN b[k] ELSE a[k]]

----------------------------------------------------------------------------
(* The user_permissions table *)

\* .select(...).eq('profile_id', userId).eq('permission_id', entitlementId)
\* .maybeSingle(): the rows of the key (none stands for data = null)
SelectPermission(rows, userId, entitlementId) ==
    {r \in rows : r.profile_id = userId /\ r.permission_id = entitlementId}

\* existingPermission?.f
Field(existing, f) ==
    IF existing = {} THEN Undefined ELSE (CHOOSE r \in existing : TRUE)[f]

\* existingPermission?.metadata || {}
ExistingMetadata(existing) ==
    IF existing = {} THEN [k \in {} |-> Null]
    ELSE (CHOOSE r \in existing : TRUE).metadata

\* !existingPermission || !existingPermission.active
IsNewSubscription(existing) ==
    existing = {} \/ ~(CHOOSE r \in existing : TRUE).active

\* A table whose only unique key is a generated id: no row ever conflicts
\* with a payload that carries none
OnConflict_GeneratedId(rows, payload) == {}

\* The rows an upsert of payload replaces: the table is keyed on the pair
\* (profile_id, permission_id)
OnConflict(rows, payload) ==
    {r \in rows : r.profile_id = payload.profile_id
                   /\ r.permission_id = payload.permission_id}

\* .upsert(payload): one atomic write keyed on (profile_id, permission_id).
\* A property that is undefined is left out of the JSON sent: on insert the
\* column takes its default (NULL), on update it keeps its value.
Upsert(rows, payload) ==
    LET old == OnConflict(rows, payload)
        Col(c) == IF payload[c] # Undefined THEN payload[c]
                  ELSE IF old = {} THEN Null ELSE (CHOOSE r \in old : TRUE)[c]
        row == [payload EXCEPT !.expires_at = Col("expires_at"),
                               !.product_id = Col("product_id"),
                               !.platform = Col("platform")]
    IN  (rows \ old) \cup {row}

\* A status that tells renewals from first activations
ActivationStatus_ByNewness(req) ==
    IF IsNewSubscription(req.existing) THEN "active" ELSE "renewed"

\* metadata.status of an activated record
ActivationStatus(req) == "active"

\* A cancellation that keeps the stored expiration
CancellationExpiresAt_Stored(req) == Field(req.existing, "expires_at")

\* expires_at of a cancelled record: the expiration the event carries
CancellationExpiresAt(req) == ExpirationString(req.ev.expiration_at_ms)

\* An expiration that takes the product from the event
ExpirationProductId_FromEvent(req) == req.ev.product_id

\* product_id of an expired record: existingPermission?.product_id
ExpirationProductId(req) == Field(req.existing, "product_id")

\* the record handleSubscriptionActivation upserts
ActivationPayload(req, t) ==
    [profile_id |-> req.userId,
     permission_id |-> req.entitlementId,
     active |-> TRUE,
     expires_at |-> ExpirationString(req.ev.expiration_at_ms),
     product_id |-> req.ev.product_id,
     platform |-> ToLowerCase(req.ev.store),
     revenuecat_user_id |-> req.userId,
     metadata |-> [transaction_id |-> req.ev.transaction_id,
                   environment |-> req.ev.environment,
                   updated_at |-> DateToISOString(t),
                   status |-> ActivationStatus(req),
                   source |-> "revenuecat_webhook",
                   event_processed_at |-> DateToISOString(t)]]

\* the record handleSubscriptionCancellation upserts
CancellationPayload(req, t) ==
    [profile_id |-> req.userId,
     permission_id |-> req.entitlementId,
     active |-> TRUE,
     expires_at |-> CancellationExpiresAt(req),
     product_id |-> Field(req.existing, "product_id"),
     platform |-> Field(req.existing, "platform"),
     revenuecat_user_id |-> req.userId,
     metadata |-> Spread(ExistingMetadata(req.existing),
                         [status |-> "cancelled",
                          cancelled_at |-> DateToISOString(t),
                          source |-> "revenuecat_webhook"])]

\* the record handleSubscriptionExpiration upserts
ExpirationPayload(req, t) ==
    [profile_id |-> req.userId,
     permission_id |-> req.entitlementId,
     active |-> FALSE,
     expires_at |-> Field(req.existing, "expires_at"),
     product_id |-> ExpirationProductId(req),
     platform |-> Field(req.existing, "platform"),
     revenuecat_user_id |-> req.userId,
     metadata |-> Spread(ExistingMetadata(req.existing),
                         [status |-> "expired",
                          expired_at |-> DateToISOString(t),
                          source |-> "revenuecat_webhook"])]

\* the record handleBillingIssue upserts
BillingIssuePayload(req, t) ==
    [profile_id |-> req.userId,
     permission_id |-> req.entitlementId,
     active |-> TRUE,
     expires_at |-> Field(req.existing, "expires_at"),
     product_id |-> Field(req.existing, "product_id"),
     platform |-> Field(req.existing, "platform"),
     revenuecat_user_id |-> req.userId,
     metadata |-> Spread(ExistingMetadata(req.existing),
                         [billing_issue |-> TRUE,
                          billing_issue_detected_at |-> DateToISOString(t),
                          source |-> "revenuecat_webhook"])]

\* A switch whose billing-issue handler suspends access
HandlerPayload_BillingSuspends(req, t) ==
    CASE req.ev.type \in ActivationTypes -> ActivationPayload(req, t)
      [] req.ev.type = CANCELLATION -> CancellationPayload(req, t)
      [] req.ev.type = EXPIRATION -> ExpirationPayload(req, t)
      [] req.ev.type = BILLING_ISSUE -> [BillingIssuePayload(req, t) EXCEPT !.active = FALSE]

\* the switch on eventType: the payload of the handler the type selects
HandlerPayload(req, t) ==
    CASE req.ev.type \in ActivationTypes -> ActivationPayload(req, t)
      [] req.ev.type = CANCELLATION -> CancellationPayload(req, t)
      [] req.ev.type = EXPIRATION -> ExpirationPayload(req, t)
      [] req.ev.type = BILLING_ISSUE -> BillingIssuePayload(req, t)

----------------------------------------------------------------------------
(* Responses *)

Response(status, body) == [status |-> status, body |-> body]

PreflightResponse == Response(204, [allow |-> "POST, OPTIONS"])
MethodNotAllowedResponse == Response(405, [error |-> "Method not allowed"])
ConfigErrorResponse == Response(500, [error |-> "Server configuration error"])
UnauthorizedResponse == Response(401, [error |-> "Unauthorized"])
ServerErrorResponse ==
    Response(500, [status |-> "error", message |-> "Server error processing webhook"])
ProcessedResponse(eventType, environment, userId) ==
    Response(200, [status |-> "processed", event_type |-> eventType,
                   environment |-> environment, user_id |-> userId])

\* error.message of what is thrown inside serve()'s try block: the SyntaxError
\* of req.json(), the TypeError of a property read on undefined, and the
\* error objects supabase returns from the select and from the upsert
ErrorMessage(cause) ==
    CASE cause = "malformed" -> "Unexpected token < in JSON at position 0"
      [] cause = "noevent" -> "Cannot read properties of undefined (reading 'environment')"
      [] cause = "nostore" -> "Cannot read properties of undefined (reading 'toLowerCase')"
      [] cause = "select" -> "canceling statement due to statement timeout"
      [] cause = "upsert" -> "new row violates row-level security policy"

Causes == {"malformed", "noevent", "nostore", "select", "upsert"}

\* A catch that hands the text of the error to the caller
CatchResponse_Echo(message) ==
    Response(500, [status |-> "error", message |-> message])

\* catch (error) { console.error(...); return the fixed 500 }
CatchResponse(message) == ServerErrorResponse

----------------------------------------------------------------------------
(* State *)

\* The tables the handler may find when it starts: an empty one, or one
\* holding the row an INITIAL_PURCHASE of the premium entitlement left.
SeedEvent ==
    [type |-> INITIAL_PURCHASE, original_app_user_id |-> "u1", product_id |-> "p1",
     entitlement_ids |-> <<"product_a">>, environment |-> "PRODUCTION",
     expiration_at_ms |-> 86400000, transaction_id |-> "t1", store |-> "APP_STORE"]

InitialStores ==
    {{}, Upsert({}, ActivationPayload([ev |-> SeedEvent, userId |-> "u1",
                                       entitlementId |-> "product_a",
                                       existing |-> {}], 0))}

\* purchaseService.js as the module is loaded (lines 31-34), in a build that
\* carries the API key `key`
ModuleLoaded(key) ==
    /\ apiKey = key
    /\ isConfigured = FALSE
    /\ currentUserId = Null
    /\ lastDiagnosticResult = {}
    /\ calls = [c \in Calls |-> {}]
    /\ ncalls = 0
    /\ loggedOut = FALSE
    /\ outcome = {}

Init ==
    /\ expectedAuth \in {Undefined, Secret}
    /\ store \in InitialStores
    /\ inflight = [s \in Slots |-> {}]
    /\ pending = [u \in Users |-> 0]
    /\ now = 0
    /\ nreq = 0
    /\ done = {}
    /\ insight = {}
    /\ ModuleLoaded("appl_key")

Busy == {s \in Slots : inflight[s] # {}}

FreeSlot == CHOOSE s \in Slots \ Busy : \A q \in Slots \ Busy : s <= q

\* The record kept of a request that got its response without any store
\* access: carried is the event type its body carried (never looked at when
\* the request is turned away before parsing); parsed tells that req.json()
\* was called, defect what was wrong with the body it parsed.
Rejected(method, auth, carried, resp) ==
    [method |-> method, auth |-> auth, carried |-> carried, ev |-> {},
     resp |-> resp, read |-> "none", wrote |-> FALSE, fired |-> FALSE,
     before |-> {}, after |-> {}, storeBefore |-> store,
     replay |-> FALSE, prevFired |-> FALSE, sibling |-> "none",
     parsed |-> FALSE, defect |-> "none"]

\* The record kept of a parsed request req when it gets the response resp:
\* before and after are the rows of its key when it was received and when it
\* was answered; replay tells that the request answered just before it
\* delivered the same event and was answered 200, prevFired that that
\* delivery found no active record and fired the trigger; sibling tells what
\* an overlapping delivery of the same event did (see Overlapped).
Completed(req, resp, read, wrote, fired, rows) ==
    [method |-> "POST", auth |-> req.auth, carried |-> req.ev.type, ev |-> {req.ev},
     resp |-> resp, read |-> read, wrote |-> wrote, fired |-> fired,
     before |-> req.before,
     after |-> SelectPermission(rows, req.userId, req.entitlementId),
     storeBefore |-> req.storeBefore,
     replay |-> req.replay, prevFired |-> req.prevFired, sibling |-> req.sibling,
     parsed |-> TRUE, defect |-> "none"]

----------------------------------------------------------------------------
(* Receipt of a request: serve() up to its first store operation *)

\* if (req.method === "OPTIONS") return 204
ServeOptions(method, auth, carried) ==
    /\ method = "OPTIONS"
    /\ done' = {Rejected(method, auth, carried, PreflightResponse)}
    /\ UNCHANGED <<store, inflight>>

\* A method check placed after the configuration and authorization checks
ServeMethodNotAllowed_AfterAuth(method, auth, carried) ==
    /\ method \notin {"OPTIONS", "POST"}
    /\ done' = {Rejected(method, auth, carried,
                         IF expectedAuth = Undefined THEN ConfigErrorResponse
                         ELSE IF auth = Null \/ auth # expectedAuth THEN UnauthorizedResponse
                         ELSE MethodNotAllowedResponse)}
    /\ UNCHANGED <<store, inflight>>

\* if (req.method !== "POST") return 405
ServeMethodNotAllowed(method, auth, carried) ==
    /\ method \notin {"OPTIONS", "POST"}
    /\ done' = {Rejected(method, auth, carried, MethodNotAllowedResponse)}
    /\ UNCHANGED <<store, inflight>>

\* A handler without the configuration check: the header is compared with
\* the undefined secret
ServeConfigError_Unchecked(method, auth, carried) ==
    /\ method = "POST"
    /\ expectedAuth = Undefined
    /\ done' = {Rejected(method, auth, carried, UnauthorizedResponse)}
    /\ UNCHANGED <<store, inflight>>

\* if (!EXPECTED_AUTH) return 500
ServeConfigError(method, auth, carried) ==
    /\ method = "POST"
    /\ expectedAuth = Undefined
    /\ done' = {Rejected(method, auth, carried, ConfigErrorResponse)}
    /\ UNCHANGED <<store, inflight>>

\* A check that lets a request without the header through
AuthFails_PresentOnly(auth) == auth # Null /\ auth # expectedAuth

\* !authHeader || authHeader !== EXPECTED_AUTH
AuthFails(auth) == auth = Null \/ auth # expectedAuth

\* if (!authHeader || authHeader !== EXPECTED_AUTH) return 401
ServeUnauthorized(method, auth, carried) ==
    /\ method = "POST"
    /\ expectedAuth # Undefined
    /\ AuthFails(auth)
    /\ done' = {Rejected(method, auth, carried, UnauthorizedResponse)}
    /\ UNCHANGED <<store, inflight>>

Authorized(method, auth) ==
    /\ method = "POST"
    /\ expectedAuth # Undefined
    /\ ~AuthFails(auth)

\* A handler that validates the body and answers 400 to a bad one
ServeBadBody_Validating(method, auth, carried, defect) ==
    /\ method = "POST"
    /\ expectedAuth # Undefined
    /\ auth # Null /\ auth = expectedAuth
    /\ \/ defect \in {"malformed", "noevent"} /\ carried = Undefined
       \/ defect = "nostore" /\ carried \in AllTypes
    /\ done' = {[Rejected(method, auth, carried, Response(400, [error |-> "Invalid payload"]))
                    EXCEPT !.parsed = TRUE, !.defect = defect]}
    /\ UNCHANGED <<store, inflight>>

\* await req.json() throws, eventPayload.event is undefined, or
\* eventData.store is undefined: a TypeError/SyntaxError caught at the top
ServeBadBody(method, auth, carried, defect) ==
    /\ Authorized(method, auth)
    /\ \/ defect \in {"malformed", "noevent"} /\ carried = Undefined
       \/ defect = "nostore" /\ carried \in AllTypes
    /\ done' = {[Rejected(method, auth, carried, CatchResponse(ErrorMessage(defect)))
                    EXCEPT !.parsed = TRUE, !.defect = defect]}
    /\ UNCHANGED <<store, inflight>>

\* What serve() has extracted from the event when it enters a handler
Request(auth, ev) ==
    [auth |-> auth,
     ev |-> ev,
     userId |-> ev.original_app_user_id,
     entitlementId |-> EntitlementId(ev),
     pc |-> "read",
     existing |-> {},
     readFailed |-> FALSE,
     before |-> SelectPermission(store, ev.original_app_user_id, EntitlementId(ev)),
     storeBefore |-> store,
     replay |-> \E d \in done : d.ev = {ev} /\ d.resp.status = 200,
     prevFired |-> \E d \in done : /\ d.ev = {ev} /\ d.resp.status = 200 /\ d.fired
                                    /\ \A r \in d.before : ~r.active,
     sibling |-> "none"]

\* switch (eventType) default: nothing, then the success response
ServeUnknown(method, auth, ev) ==
    /\ Authorized(method, auth)
    /\ ev.type \notin EventType
    /\ done' = {Completed(Request(auth, ev),
                          ProcessedResponse(ev.type, ev.environment, ev.original_app_user_id),
                          "none", FALSE, FALSE, store)}
    /\ UNCHANGED <<store, inflight>>

\* switch (eventType): one of the four handlers is entered
EnterHandler(method, auth, ev) ==
    /\ Authorized(method, auth)
    /\ ev.type \in EventType
    /\ inflight' = [inflight EXCEPT ![FreeSlot] = {Request(auth, ev)}]
    /\ done' = {}
    /\ UNCHANGED store

ReceiveOf(limit, events) ==
    /\ nreq < MaxRequests
    /\ Cardinality(Busy) < limit
    /\ nreq' = nreq + 1
    /\ insight' = {}
    /\ UNCHANGED clientVars
    /\ UNCHANGED <<expectedAuth, pending, now>>
    /\ \E method \in Methods, auth \in AuthHeaders :
          \/ ServeOptions(method, auth, Undefined)
          \/ ServeMethodNotAllowed(method, auth, Undefined)
          \/ \E carried \in AllTypes \cup {Undefined} :
                \/ ServeConfigError(method, auth, carried)
                \/ ServeUnauthorized(method, auth, carried)
                \/ \E defect \in BodyDefects : ServeBadBody(method, auth, carried, defect)
          \/ \E ev \in events :
                \/ ServeUnknown(method, auth, ev)
                \/ EnterHandler(method, auth, ev)

\* serve() on a request carrying any of the events
Receive(limit) == ReceiveOf(limit, Events)

----------------------------------------------------------------------------
(* The handlers' store operations *)

\* What becomes of request req after its select returned (data, failed):
\* handleSubscriptionActivation reads no error and goes on with data = null;
\* the other handlers throw fetchError; handleBillingIssue returns when there
\* is no record.
AfterRead(req, failed) ==
    CASE req.ev.type \in ActivationTypes -> "write"
      [] failed -> "throw"
      [] req.ev.type = BILLING_ISSUE /\ req.existing = {} -> "return"
      [] OTHER -> "write"

\* await supabase.from('user_permissions').select(...).maybeSingle()
StoreRead(s) ==
    /\ inflight[s] # {}
    /\ \E req \in inflight[s] :
        /\ req.pc = "read"
        /\ \E failed \in BOOLEAN :
            LET data == IF failed THEN {}
                        ELSE SelectPermission(store, req.userId, req.entitlementId)
                got == [req EXCEPT !.existing = data, !.readFailed = failed, !.pc = "write"]
                next == AfterRead(got, failed)
                ProcessedResp == ProcessedResponse(req.ev.type, req.ev.environment, req.userId)
            IN  \/ /\ next = "write"
                   /\ inflight' = [inflight EXCEPT ![s] = {got}]
                   /\ UNCHANGED done
                \/ /\ next = "throw"
                   /\ inflight' = [inflight EXCEPT ![s] = {}]
                   /\ done' = {Completed(got, CatchResponse(ErrorMessage("select")),
                                         "failed", FALSE, FALSE, store)}
                \/ /\ next = "return"
                   /\ inflight' = [inflight EXCEPT ![s] = {}]
                   /\ done' = {Completed(got, ProcessedResp, "ok", FALSE, FALSE, store)}
    /\ insight' = {}
    /\ UNCHANGED clientVars
    /\ UNCHANGED <<expectedAuth, store, pending, now, nreq>>

\* if (entitlementId === 'product_a' && isNewSubscription)
\*   triggerPremiumInsightsGeneration(userId)
ShouldTrigger(req) ==
    /\ req.ev.type \in ActivationTypes
    /\ req.entitlementId = "product_a"
    /\ IsNewSubscription(req.existing)

\* A handler that launches the trigger whatever became of its upsert
FiresTrigger_Regardless(req, failed) == ShouldTrigger(req)

\* if (error) throw error comes before the trigger: it is launched only when
\* the upsert of the same request succeeded
FiresTrigger(req, failed) == ~failed /\ ShouldTrigger(req)

\* triggerPremiumInsightsGeneration up to its await fetch: it throws into its
\* own catch when Deno.env has no SUPABASE_URL, else the call is out.
LaunchTrigger(userId, supabaseUrl) ==
    IF supabaseUrl = ""
    THEN UNCHANGED pending
    ELSE pending' = [pending EXCEPT ![userId] = @ + 1]

\* The response of a handler whose upsert returned: the error is thrown to
\* the top-level catch, else the switch falls through to the success response.
WriteResponse(req, failed) ==
    IF failed THEN CatchResponse(ErrorMessage("upsert"))
    ELSE ProcessedResponse(req.ev.type, req.ev.environment, req.userId)

\* Two invocations of serve() share nothing but the table. What request r,
\* still in flight, has seen of the request that delivers event ev and whose
\* upsert just succeeded (fire: it launched the trigger): when r delivers the
\* same event and has already done its select, both requests read the record
\* before either wrote it.
Overlapped(r, ev, fire) ==
    IF r.ev = ev /\ r.pc = "write"
    THEN [r EXCEPT !.sibling = IF fire \/ @ = "fired" THEN "fired" ELSE "wrote"]
    ELSE r

\* A handler that awaits the insights call: the request that launched it
\* stays in flight until the call settles
StoreWrite_AwaitingTrigger(s) ==
    /\ inflight[s] # {}
    /\ \E req \in inflight[s] :
        /\ req.pc = "write"
        /\ \E failed \in BOOLEAN :
            LET rows == IF failed THEN store ELSE Upsert(store, HandlerPayload(req, now))
                fire == FiresTrigger(req, failed)
            IN  /\ now' = now + 1
                /\ store' = rows
                /\ IF fire
                   THEN /\ pending' = [pending EXCEPT ![req.userId] = @ + 1]
                        /\ inflight' = [inflight EXCEPT ![s] = {[req EXCEPT !.pc = "settle"]}]
                        /\ done' = {}
                   ELSE /\ UNCHANGED pending
                        /\ inflight' = [inflight EXCEPT ![s] = {}]
                        /\ done' = {Completed(req, WriteResponse(req, failed),
                                              IF req.readFailed THEN "failed" ELSE "ok",
                                              ~failed, fire, rows)}
    /\ insight' = {}
    /\ UNCHANGED clientVars
    /\ UNCHANGED <<expectedAuth, nreq>>

\* await supabase.from('user_permissions').upsert(...), then the rest of the
\* handler and of serve()
StoreWrite(s) ==
    /\ inflight[s] # {}
    /\ \E req \in inflight[s] :
        /\ req.pc = "write"
        /\ \E failed \in BOOLEAN :
            LET rows == IF failed THEN store ELSE Upsert(store, HandlerPayload(req, now))
                fire == FiresTrigger(req, failed)
            IN  /\ now' = now + 1
                /\ store' = rows
                /\ IF fire
                   THEN \E supabaseUrl \in {"", "https://project.supabase.co"} :
                            LaunchTrigger(req.userId, supabaseUrl)
                   ELSE UNCHANGED pending
                /\ done' = {Completed(req, WriteResponse(req, failed),
                                      IF req.readFailed THEN "failed" ELSE "ok",
                                      ~failed, fire, rows)}
                /\ inflight' = [q \in Slots |->
                                  IF q = s THEN {}
                                  ELSE IF failed THEN inflight[q]
                                  ELSE {Overlapped(r, req.ev, fire) : r \in inflight[q]}]
    /\ insight' = {}
    /\ UNCHANGED clientVars
    /\ UNCHANGED <<expectedAuth, nreq>>

\* A trigger whose failure reaches the request that launched it
TriggerSettle_Propagating(u) ==
    /\ pending[u] > 0
    /\ pending' = [pending EXCEPT ![u] = @ - 1]
    /\ done' = {[d EXCEPT !.resp = ServerErrorResponse] : d \in done}
    /\ UNCHANGED <<expectedAuth, store, inflight, now, nreq, insight>>
    /\ UNCHANGED clientVars

\* The outbound insights call settles: a 2xx answer, a non-ok answer, or fetch
\* throws; each is only logged. (A call may also never settle.)
TriggerSettle(u) ==
    /\ pending[u] > 0
    /\ pending' = [pending EXCEPT ![u] = @ - 1]
    /\ UNCHANGED <<expectedAuth, store, inflight, now, nreq, done, insight>>
    /\ UNCHANGED clientVars

----------------------------------------------------------------------------
(* The insights generator: analyze-golf-performance *)

ServiceRoleKey == "service-role-key"

Profiles == {"u1", "u2"}

\* The bearer tokens a request to the generator may carry (Null: it has no
\* Authorization header): the key the webhook's trigger sends, and the JWTs
\* of two users
Tokens == {Null, ServiceRoleKey, "jwt-u1", "jwt-u2"}

\* supabase.auth.getUser(token): the user of a valid JWT, Null for an error
GetUser(token) ==
    CASE token = "jwt-u1" -> "u1"
      [] token = "jwt-u2" -> "u2"
      [] OTHER -> Null

\* The ids of the completed rounds of a profile, latest first
CompletedRounds(profileId) ==
    CASE profileId = "u1" -> <<"r6", "r5", "r4", "r3", "r2", "r1">>
      [] profileId = "u2" -> <<>>
      [] OTHER -> <<>>

\* .limit(n) of a query, Array.prototype.slice(0, n)
Limit(rows, n) == SubSeq(rows, 1, IF Len(rows) < n THEN Len(rows) ELSE n)

\* The user id the generator works for: that of the token when getUser
\* accepts it, else requestBody.userId
ResolveUserId(authHeader, bodyUserId) ==
    IF authHeader # Null /\ GetUser(authHeader) # Null
    THEN GetUser(authHeader)
    ELSE bodyUserId

\* A permission check that does not look at the active flag
HasProductA_AnyRecord(rows, userId, failed) ==
    ~failed /\ \E r \in rows : r.profile_id = userId /\ r.permission_id = "product_a"

\* hasProductA: false unless the query on user_permissions (profile_id,
\* permission_id 'product_a', active true) returns a row without error
HasProductA(rows, userId, failed) ==
    /\ ~failed
    /\ \E r \in rows : r.profile_id = userId /\ r.permission_id = "product_a" /\ r.active

\* The record of an insights request: caller is the user its token
\* authenticates (Null when none does), readOf the profile whose rounds and
\* shots were queried, golfRounds the rounds put in the prompt, analyzedRounds
\* and productAccess what the response reports.
Insight(authHeader, bodyUserId, userId, permFailed, hasProductA, rounds, answered) ==
    [authHeader |-> authHeader,
     caller |-> IF authHeader = Null THEN Null ELSE GetUser(authHeader),
     bodyUserId |-> bodyUserId,
     userId |-> userId,
     permFailed |-> permFailed,
     hasProductA |-> hasProductA,
     readOf |-> IF userId = Undefined THEN Null ELSE userId,
     golfRounds |-> IF ~answered THEN <<>>
                    ELSE IF hasProductA THEN rounds ELSE Limit(rounds, 1),
     status |-> IF answered THEN 200 ELSE 500,
     analyzedRounds |-> IF answered THEN rounds ELSE <<>>,
     productAccess |-> IF answered /\ hasProductA THEN "product_a" ELSE Null]

\* serve() of analyze-golf-performance for a POST: the user id is resolved,
\* the permission is checked, the rounds and shots of userId are read with
\* the service-role client, the prompt is built from all of them or from the
\* latest one, and the insights are returned. It throws (500) when there is
\* no user id, when there are no rounds, and when OpenAI fails.
Analyze ==
    /\ nreq < MaxRequests
    /\ nreq' = nreq + 1
    /\ \E authHeader \in Tokens, bodyUserId \in Profiles \cup {Undefined},
          permFailed \in BOOLEAN, openAiOk \in BOOLEAN :
          LET userId == ResolveUserId(authHeader, bodyUserId)
              known == userId # Undefined
              hasProductA == known /\ HasProductA(store, userId, permFailed)
              rounds == IF known THEN Limit(CompletedRounds(userId), 5) ELSE <<>>
          IN  insight' = {Insight(authHeader, bodyUserId, userId, known /\ permFailed,
                                  hasProductA, rounds,
                                  known /\ Len(rounds) > 0 /\ openAiOk)}
    /\ UNCHANGED <<expectedAuth, store, inflight, pending, now, done>>
    /\ UNCHANGED clientVars

----------------------------------------------------------------------------
(* The client purchase service: src/services/purchaseService.js            *)
(*                                                                         *)
(* The module keeps isConfigured, currentUserId and lastDiagnosticResult.  *)
(* An async function runs without interruption up to its next await of the *)
(* SDK; there another call may start, another suspended call may resume,   *)
(* or cleanupPurchases may run. Each action below is one such piece: the   *)
(* start of a call up to its first SDK await, or the piece after an SDK    *)
(* promise has settled.                                                    *)

\* PURCHASE_ERROR_TYPES
CONNECTION == "connection_error"
CANCELLED == "user_cancelled"
ALREADY_OWNED == "already_owned"
NOT_ALLOWED == "not_allowed"
UNKNOWN == "unknown_error"
SERVER == "server_error"
CONFIGURATION == "configuration_error"
PRODUCTS_NOT_FOUND == "products_not_found"

\* PRODUCT_IDS[Platform.OS]
ExpectedProductId == "product_a"

EXPECTED_OFFERING == "$rc_monthly"

\* A message is the sequence of its words; '' is the empty sequence
\* new Error(message): an error without a code
NewError(message) == [code |-> Undefined, message |-> message]

NotConfiguredMessage ==
    <<"RevenueCat", "not", "configured", ".", "Call", "initializePurchases", "first", ".">>

ProductUnavailableMessage ==
    <<"Expected", "product", "not", "available", "for", "purchase", ".", "Check",
      "configuration", ".">>

\* `Unable to load purchase options: ${offeringsError.message}`
UnableToLoadMessage(message) ==
    <<"Unable", "to", "load", "purchase", "options", ":">> \o message

\* `Product '${expectedProductId}' not found. Available products: ...`
ProductNotFoundMessage(available) ==
    <<"Product", ExpectedProductId, "not", "found", ".", "Available", "products", ":">>
        \o available

\* What the SDK rejects a promise with: RevenueCat errors that carry a code,
\* and plain errors without one
SdkErrors ==
    {[code |-> "USER_CANCELLED", message |-> <<"The", "user", "cancelled">>],
     [code |-> "ITEM_ALREADY_OWNED", message |-> <<"Item", "owned">>],
     [code |-> "STORE_PROBLEM", message |-> <<"Store", "problem">>],
     [code |-> "INVALID_PURCHASE", message |-> <<"Invalid", "purchase">>],
     [code |-> "NETWORK_ERROR", message |-> <<>>],
     [code |-> Undefined, message |-> <<"Network", "request", "failed">>],
     [code |-> Undefined, message |-> <<"Products", "list", "is", "Empty">>],
     [code |-> Undefined, message |-> <<"Offering", "Not", "Found">>],
     [code |-> Undefined, message |-> <<>>]}

\* String.prototype.toLowerCase on the words mapToPublicError searches for
\* (no other word of a message holds one of them in any spelling)
ToLowerCaseWord(w) ==
    CASE w = "Network" -> "network"
      [] w = "Connection" -> "connection"
      [] w = "Configuration" -> "configuration"
      [] w = "Not" -> "not"
      [] w = "Found" -> "found"
      [] w = "Products" -> "products"
      [] w = "Empty" -> "empty"
      [] OTHER -> w

LowerCased(message) == [i \in DOMAIN message |-> ToLowerCaseWord(message[i])]

\* message.includes(phrase)
Includes(message, phrase) ==
    \E i \in 1..(Len(message) - Len(phrase) + 1) :
        SubSeq(message, i, i + Len(phrase) - 1) = phrase

\* mapToPublicError(error); diagnostic is the _diagnostic property, absent
\* ({}) until purchasePremiumInsights attaches one
MapToPublicError(error) ==
    LET message == LowerCased(error.message)
        mapped ==
            IF error.code # Undefined
            THEN CASE error.code = "USER_CANCELLED" ->
                        [code |-> CANCELLED, message |-> <<"Purchase", "was", "cancelled">>]
                   [] error.code = "ITEM_ALREADY_OWNED" ->
                        [code |-> ALREADY_OWNED,
                         message |-> <<"You", "already", "own", "this", "item">>]
                   [] error.code = "STORE_PROBLEM" ->
                        [code |-> CONNECTION, message |-> <<"Store", "connection", "failed">>]
                   [] error.code = "INVALID_PURCHASE" ->
                        [code |-> SERVER, message |-> <<"Purchase", "validation", "failed">>]
                   [] OTHER ->
                        [code |-> UNKNOWN,
                         message |-> IF error.message # <<>> THEN error.message
                                     ELSE <<"Purchase", "failed">>]
            ELSE IF error.message # <<>>
            THEN IF Includes(message, <<"network">>) \/ Includes(message, <<"connection">>)
                 THEN [code |-> CONNECTION, message |-> <<"Network", "connection", "failed">>]
                 ELSE IF \/ Includes(message, <<"configuration">>)
                         \/ Includes(message, <<"not", "found">>)
                 THEN [code |-> CONFIGURATION, message |-> error.message]
                 ELSE IF Includes(message, <<"products">>) /\ Includes(message, <<"empty">>)
                 THEN [code |-> PRODUCTS_NOT_FOUND,
                       message |-> <<"Products", "not", "available", ".", "Check",
                                     "configuration", ".">>]
                 ELSE [code |-> UNKNOWN, message |-> error.message]
            ELSE [code |-> UNKNOWN, message |-> <<"An", "unknown", "error", "occurred">>]
    IN  [code |-> mapped.code, message |-> mapped.message, diagnostic |-> {}]

\* An offering with the product identifiers of its available packages
Offering(identifier, products) == [identifier |-> identifier, products |-> products]

\* What Purchases.getOfferings() resolves to: nothing configured; the expected
\* product in the current offering; only in another offering; in none
OfferingsResults ==
    {[current |-> Null, all |-> {}],
     [current |-> EXPECTED_OFFERING,
      all |-> {Offering(EXPECTED_OFFERING, {"product_a"})}],
     [current |-> "legacy",
      all |-> {Offering("legacy", {"p_other"}),
               Offering(EXPECTED_OFFERING, {"product_a"})}],
     [current |-> EXPECTED_OFFERING,
      all |-> {Offering(EXPECTED_OFFERING, {"p_other"})}]}

\* What an awaited getOfferings() gives: {} when it rejects
Fetched == {{}} \cup {{o} : o \in OfferingsResults}

\* productAnalysis.filter(p => p.productId === expectedProductId), as the
\* offerings the products were found in
ExpectedProductsFound(offerings) ==
    {o.identifier : o \in {x \in offerings.all : ExpectedProductId \in x.products}}

\* The report of runComprehensiveDiagnostic(): sdkReady and userId are read
\* before the await, fetched is what Purchases.getOfferings() gave
Diagnostic(sdkReady, userId, fetched) ==
    IF ~sdkReady
    THEN [sdkReady |-> FALSE, userId |-> userId, expectedProductsFound |-> {},
          configurationIssues |-> {"not initialized"}]
    ELSE IF fetched = {}
    THEN [sdkReady |-> TRUE, userId |-> userId, expectedProductsFound |-> {},
          configurationIssues |-> {"offerings fetch failed"}]
    ELSE LET offerings == CHOOSE o \in fetched : TRUE
             found == ExpectedProductsFound(offerings)
         IN  [sdkReady |-> TRUE, userId |-> userId, expectedProductsFound |-> found,
              configurationIssues |->
                  (IF found = {} THEN {"expected product not found"} ELSE {})
                  \cup (IF offerings.current # EXPECTED_OFFERING
                        THEN {"unexpected current offering"} ELSE {})
                  \cup (IF offerings.all = {} THEN {"no offerings"} ELSE {})
                  \cup (IF \A o \in offerings.all : o.products = {}
                        THEN {"no products"} ELSE {})]

\* packageToPurchase of purchasePremiumInsights, as the offerings whose
\* package may be taken ({} when none): the current offering first, then all
LocatePackage(offerings) ==
    LET holds(o) == ExpectedProductId \in o.products
        inCurrent == {o \in offerings.all : o.identifier = offerings.current /\ holds(o)}
    IN  IF inCurrent # {} THEN inCurrent ELSE {o \in offerings.all : holds(o)}

\* The product identifiers listed in the 'not found' message
AvailableProducts(offerings) ==
    IF \E o \in offerings.all : "p_other" \in o.products THEN <<"p_other">> ELSE <<>>

\* The guard that opens every operation: what it throws
RequireConfigured_Unchecked(configured) == {}

\* if (!isConfigured) throw new Error('RevenueCat not configured. ...')
RequireConfigured(configured) ==
    IF ~configured THEN {NewError(NotConfiguredMessage)} ELSE {}

\* The catch block of purchasePremiumInsights passing the error on
PurchaseCatch_Rethrowing(error, last) ==
    [threw |-> TRUE, result |-> "error", error |-> {MapToPublicError(error)}]

\* The catch block of purchasePremiumInsights; last is lastDiagnosticResult
PurchaseCatch(error, last) ==
    LET publicError ==
            [MapToPublicError(error) EXCEPT
                !.diagnostic = {d.configurationIssues : d \in last}]
    IN  IF publicError.code = CANCELLED
        THEN [threw |-> FALSE, result |-> "cancelled", error |-> {}]
        ELSE [threw |-> FALSE, result |-> "error", error |-> {publicError}]

\* A call as it starts: ready is isConfigured as the call found it, sdk the
\* SDK methods it has called, rejected the error its last SDK call rejected
\* with, found and located the progress of a purchase
NewCall(op, pc, userId, sdk) ==
    [op |-> op, pc |-> pc, userId |-> userId, sdk |-> sdk, ready |-> isConfigured,
     found |-> FALSE, located |-> FALSE, rejected |-> {}]

\* A call as it completes: it threw (the promise rejects with error) or it
\* returned result
Finished(call, threw, result, error) ==
    [op |-> call.op, userId |-> call.userId, sdk |-> call.sdk, ready |-> call.ready,
     found |-> call.found, located |-> call.located, rejected |-> call.rejected,
     threw |-> threw, result |-> result, error |-> error]

Suspend(c, call) == calls' = [calls EXCEPT ![c] = {call}]

Resume(c) == calls' = [calls EXCEPT ![c] = {}]

\* initializePurchases(userId) up to await Purchases.configure(...)
initializePurchases(c, userId) ==
    /\ calls[c] = {}
    /\ ncalls < MaxCalls
    /\ ncalls' = ncalls + 1
    /\ loggedOut' = FALSE
    /\ IF apiKey = Undefined
       THEN /\ isConfigured' = FALSE
            /\ outcome' = {Finished(NewCall("initializePurchases", "start", userId, <<>>),
                                    FALSE, "false", {})}
            /\ UNCHANGED calls
       ELSE /\ Suspend(c, NewCall("initializePurchases", "configure", userId,
                                  <<"configure">>))
            /\ outcome' = {}
            /\ UNCHANGED isConfigured
    /\ UNCHANGED <<apiKey, currentUserId, lastDiagnosticResult>>
    /\ UNCHANGED webhookVars

\* Purchases.configure settles: the flag and the user id are set and the
\* diagnostic is started (up to its await of getOfferings), or the catch
\* block clears the flag
ConfigureSettle(c) ==
    /\ \E call \in calls[c] :
          /\ call.pc = "configure"
          /\ \/ /\ isConfigured' = TRUE
                /\ currentUserId' = call.userId
                /\ Suspend(c, [call EXCEPT !.pc = "diagnostic",
                                           !.sdk = Append(@, "getOfferings")])
                /\ outcome' = {}
             \/ \E e \in SdkErrors :
                /\ isConfigured' = FALSE
                /\ Resume(c)
                /\ outcome' = {Finished([call EXCEPT !.rejected = {e}], FALSE, "false", {})}
                /\ UNCHANGED currentUserId
    /\ UNCHANGED <<apiKey, lastDiagnosticResult, ncalls, loggedOut>>
    /\ UNCHANGED webhookVars

\* The diagnostic of initializePurchases returns: it is kept and the call
\* returns true
InitDiagnosticSettle(c) ==
    /\ \E call \in calls[c] :
          /\ call.pc = "diagnostic"
          /\ \E fetched \in Fetched :
                lastDiagnosticResult' = {Diagnostic(TRUE, call.userId, fetched)}
          /\ outcome' = {Finished(call, FALSE, "true", {})}
    /\ Resume(c)
    /\ UNCHANGED <<apiKey, isConfigured, currentUserId, ncalls, loggedOut>>
    /\ UNCHANGED webhookVars

\* cleanupPurchases()
cleanupPurchases ==
    /\ ncalls < MaxCalls
    /\ ncalls' = ncalls + 1
    /\ isConfigured' = FALSE
    /\ currentUserId' = Null
    /\ lastDiagnosticResult' = {}
    /\ loggedOut' = TRUE
    /\ outcome' = {Finished(NewCall("cleanupPurchases", "start", Null, <<>>),
                            FALSE, "undefined", {})}
    /\ UNCHANGED <<apiKey, calls>>
    /\ UNCHANGED webhookVars

\* The start of getOfferings(), getCustomerInfo() and restorePurchases(): the
\* guard, then the one SDK method the operation awaits. When the guard
\* throws, the catch block throws the mapped error on (threw) or returns
\* result with it
Start(c, op, threw, result) ==
    /\ calls[c] = {}
    /\ ncalls < MaxCalls
    /\ ncalls' = ncalls + 1
    /\ LET thrown == RequireConfigured(isConfigured)
       IN  IF thrown # {}
           THEN /\ outcome' = {Finished(NewCall(op, "start", Null, <<>>), threw, result,
                                        {MapToPublicError(e) : e \in thrown})}
                /\ UNCHANGED calls
           ELSE /\ Suspend(c, NewCall(op, "sdk", Null, <<op>>))
                /\ outcome' = {}
    /\ UNCHANGED <<apiKey, isConfigured, currentUserId, lastDiagnosticResult, loggedOut>>
    /\ UNCHANGED webhookVars

\* getOfferings() up to await Purchases.getOfferings()
getOfferings(c) == Start(c, "getOfferings", TRUE, "error")

\* getCustomerInfo() up to await Purchases.getCustomerInfo()
getCustomerInfo(c) == Start(c, "getCustomerInfo", TRUE, "error")

\* restorePurchases() up to await Purchases.restorePurchases()
restorePurchases(c) == Start(c, "restorePurchases", FALSE, "restored: false, error")

\* The SDK method of getOfferings() or getCustomerInfo() settles: the value
\* is returned with its _diagnostic, or the mapped error is thrown
QuerySettle(c) ==
    /\ \E call \in calls[c] :
          /\ call.pc = "sdk"
          /\ call.op \in {"getOfferings", "getCustomerInfo"}
          /\ \/ outcome' = {Finished(call, FALSE, "value", {})}
             \/ \E e \in SdkErrors :
                   outcome' = {Finished([call EXCEPT !.rejected = {e}], TRUE, "error",
                                        {MapToPublicError(e)})}
    /\ Resume(c)
    /\ UNCHANGED <<apiKey, isConfigured, currentUserId, lastDiagnosticResult, ncalls,
                   loggedOut>>
    /\ UNCHANGED webhookVars

\* Purchases.restorePurchases() settles
RestoreSettle(c) ==
    /\ \E call \in calls[c] :
          /\ call.pc = "sdk"
          /\ call.op = "restorePurchases"
          /\ \/ \E hasProductA \in BOOLEAN :
                   outcome' = {Finished(call, FALSE,
                                        IF hasProductA THEN "restored: true"
                                        ELSE "restored: false", {})}
             \/ \E e \in SdkErrors :
                   outcome' = {Finished([call EXCEPT !.rejected = {e}], FALSE,
                                        "restored: false, error", {MapToPublicError(e)})}
    /\ Resume(c)
    /\ UNCHANGED <<apiKey, isConfigured, currentUserId, lastDiagnosticResult, ncalls,
                   loggedOut>>
    /\ UNCHANGED webhookVars

\* A purchase ends in its catch block
Caught(call, error) ==
    LET r == PurchaseCatch(error, lastDiagnosticResult)
    IN  outcome' = {Finished(call, r.threw, r.result, r.error)}

\* purchasePremiumInsights() up to the await inside the pre-flight
\* runComprehensiveDiagnostic()
purchasePremiumInsights(c) ==
    /\ calls[c] = {}
    /\ ncalls < MaxCalls
    /\ ncalls' = ncalls + 1
    /\ LET thrown == RequireConfigured(isConfigured)
       IN  IF thrown # {}
           THEN /\ Caught(NewCall("purchasePremiumInsights", "start", Null, <<>>),
                          CHOOSE e \in thrown : TRUE)
                /\ UNCHANGED calls
           ELSE /\ Suspend(c, NewCall("purchasePremiumInsights", "preflight", Null,
                                      <<"getOfferings">>))
                /\ outcome' = {}
    /\ UNCHANGED <<apiKey, isConfigured, currentUserId, lastDiagnosticResult, loggedOut>>
    /\ UNCHANGED webhookVars

\* The pre-flight diagnostic returns: without the expected product the
\* purchase ends, with it the offerings are fetched
PreflightSettle(c) ==
    /\ \E call \in calls[c] :
          /\ call.pc = "preflight"
          /\ \E fetched \in Fetched :
                IF Diagnostic(TRUE, currentUserId, fetched).expectedProductsFound = {}
                THEN /\ Caught(call, NewError(ProductUnavailableMessage))
                     /\ Resume(c)
                ELSE /\ Suspend(c, [call EXCEPT !.pc = "offerings", !.found = TRUE,
                                                !.sdk = Append(@, "getOfferings")])
                     /\ outcome' = {}
    /\ UNCHANGED <<apiKey, isConfigured, currentUserId, lastDiagnosticResult, ncalls,
                   loggedOut>>
    /\ UNCHANGED webhookVars

\* Purchases.getOfferings() of the purchase settles: the package is located
\* and Purchases.purchasePackage is called, or the purchase ends
OfferingsSettle(c) ==
    /\ \E call \in calls[c] :
          /\ call.pc = "offerings"
          /\ \/ \E e \in SdkErrors :
                   /\ Caught([call EXCEPT !.rejected = {e}],
                             NewError(UnableToLoadMessage(e.message)))
                   /\ Resume(c)
             \/ \E offerings \in OfferingsResults :
                   IF LocatePackage(offerings) = {}
                   THEN /\ Caught(call, NewError(ProductNotFoundMessage(
                                                     AvailableProducts(offerings))))
                        /\ Resume(c)
                   ELSE /\ Suspend(c, [call EXCEPT !.pc = "purchase", !.located = TRUE,
                                                   !.sdk = Append(@, "purchasePackage")])
                        /\ outcome' = {}
    /\ UNCHANGED <<apiKey, isConfigured, currentUserId, lastDiagnosticResult, ncalls,
                   loggedOut>>
    /\ UNCHANGED webhookVars

\* Purchases.purchasePackage settles
PurchaseSettle(c) ==
    /\ \E call \in calls[c] :
          /\ call.pc = "purchase"
          /\ \/ outcome' = {Finished(call, FALSE, "success", {})}
             \/ \E e \in SdkErrors : Caught([call EXCEPT !.rejected = {e}], e)
    /\ Resume(c)
    /\ UNCHANGED <<apiKey, isConfigured, currentUserId, lastDiagnosticResult, ncalls,
                   loggedOut>>
    /\ UNCHANGED webhookVars

----------------------------------------------------------------------------
(* Specifications *)

\* Requests served one after the other
Next ==
    \/ Receive(1)
    \/ \E s \in Slots : StoreRead(s)
    \/ \E s \in Slots : StoreWrite(s)
    \/ \E u \in Users : TriggerSettle(u)
    \/ Analyze

Spec == Init /\ [][Next]_vars

\* Requests served concurrently, interleaved at their store operations
NextConc ==
    \/ Receive(Cardinality(Slots))
    \/ \E s \in Slots : StoreRead(s)
    \/ \E s \in Slots : StoreWrite(s)
    \/ \E u \in Users : TriggerSettle(u)
    \/ Analyze

SpecConc == Init /\ [][NextConc]_vars

\* The webhook alone, serving concurrent requests about one key
NextRace ==
    \/ ReceiveOf(Cardinality(Slots), KeyEvents)
    \/ \E s \in Slots : StoreRead(s)
    \/ \E s \in Slots : StoreWrite(s)
    \/ \E u \in Users : TriggerSettle(u)

SpecRace == Init /\ [][NextRace]_vars

\* The webhook alone, its requests served one after the other, where every
\* store operation that is awaited returns (with data or with an error). The
\* outbound insights call is under no such obligation: it may never settle.
NextLive ==
    \/ ReceiveOf(1, KeyEvents)
    \/ \E s \in Slots : StoreRead(s)
    \/ \E s \in Slots : StoreWrite(s)
    \/ \E u \in Users : TriggerSettle(u)

SpecLive ==
    /\ Init
    /\ [][NextLive]_vars
    /\ \A s \in Slots : WF_vars(StoreRead(s)) /\ WF_vars(StoreWrite(s))

\* The purchase service in a build with or without the API key, its calls
\* interleaved at their awaits of the SDK
InitClient ==
    /\ expectedAuth = Secret
    /\ store = {}
    /\ inflight = [s \in Slots |-> {}]
    /\ pending = [u \in Users |-> 0]
    /\ now = 0
    /\ nreq = 0
    /\ done = {}
    /\ insight = {}
    /\ \E key \in ApiKeys : ModuleLoaded(key)

NextClient ==
    \/ \E c \in Calls, userId \in Profiles : initializePurchases(c, userId)
    \/ \E c \in Calls : ConfigureSettle(c)
    \/ \E c \in Calls : InitDiagnosticSettle(c)
    \/ cleanupPurchases
    \/ \E c \in Calls : getOfferings(c)
    \/ \E c \in Calls : getCustomerInfo(c)
    \/ \E c \in Calls : restorePurchases(c)
    \/ \E c \in Calls : QuerySettle(c)
    \/ \E c \in Calls : RestoreSettle(c)
    \/ \E c \in Calls : purchasePremiumInsights(c)
    \/ \E c \in Calls : PreflightSettle(c)
    \/ \E c \in Calls : OfferingsSettle(c)
    \/ \E c \in Calls : PurchaseSettle(c)

SpecClient == InitClient /\ [][NextClient]_vars

----------------------------------------------------------------------------
(* Vocabulary of the properties *)

Row(rows) == CHOOSE r \in rows : TRUE

EventOf(d) == CHOOSE e \in d.ev : TRUE

IsProcessed(d) == d.resp.status = 200 /\ d.resp.body.status = "processed"

IsActivation(d) == d.ev # {} /\ d.carried \in ActivationTypes

IsPremium(d) == d.ev # {} /\ EntitlementId(EventOf(d)) = PremiumEntitlement

HadActiveRecord(d) == \E r \in d.before : r.active

NoStoreAccess(d) == d.read = "none" /\ ~d.wrote /\ ~d.fired /\ store = d.storeBefore

\* a row without the two processing timestamps of its metadata
WithoutProcessingTimes(r) ==
    [r EXCEPT !.metadata =
        [k \in DOMAIN r.metadata \ {"updated_at", "event_processed_at"} |-> r.metadata[k]]]

----------------------------------------------------------------------------
(* Properties *)

\* C1 (as stated): an Activation event processed a second time, right after
\* it was processed once, leaves the record exactly as the first processing
\* left it.
C1_SecondActivationLeavesRecordIdentical ==
    \A d \in done :
        (d.replay /\ IsActivation(d) /\ d.wrote) => d.after = d.before

\* C1 (amended): an Activation event processed a second time, right after it
\* was processed once, leaves the record as the first processing left it in
\* every column and metadata entry except metadata.updated_at and
\* metadata.event_processed_at, which carry the time of the latest processing.
C1_SecondActivationSameButTimes ==
    \A d \in done :
        (d.replay /\ IsActivation(d) /\ d.wrote) =>
            /\ d.before # {} /\ d.after # {}
            /\ WithoutProcessingTimes(Row(d.after)) = WithoutProcessingTimes(Row(d.before))

C1_Witness ==
    \E d \in done :
        /\ d.replay /\ IsActivation(d) /\ d.wrote
        /\ d.after # d.before
        /\ WithoutProcessingTimes(Row(d.after)) = WithoutProcessingTimes(Row(d.before))

\* C2: a request answered 200 has fired the insights trigger if and only if
\* it is an Activation, its entitlement is product_a and no active record
\* existed for its key before it; no other request fires it.
C2_TriggerIffNewPremiumActivation ==
    \A d \in done :
        /\ d.fired => IsProcessed(d)
        /\ IsProcessed(d) =>
              (d.fired <=> (IsActivation(d) /\ IsPremium(d) /\ ~HadActiveRecord(d)))

\* C3 (as stated): a POST whose Authorization header is missing or is not the
\* expected secret gets 401 and reads, writes and triggers nothing.
C3_BadAuthAlways401 ==
    \A d \in done :
        (d.method = "POST" /\ (d.auth = Null \/ d.auth # Secret)) =>
            d.resp = UnauthorizedResponse /\ NoStoreAccess(d)

\* C3 (amended): when the expected secret is configured on the server, a POST
\* whose Authorization header is missing or differs from it gets 401, for
\* every event type carried, and reads, writes and triggers nothing: the
\* store is as it was before the request.
C3_BadAuth401WhenConfigured ==
    \A d \in done :
        (expectedAuth # Undefined /\ d.method = "POST"
            /\ (d.auth = Null \/ d.auth # expectedAuth)) =>
            d.resp = UnauthorizedResponse /\ NoStoreAccess(d)

C3_Witness ==
    \E d \in done :
        /\ d.method = "POST" /\ d.auth = "wrong-secret" /\ d.carried = EXPIRATION
        /\ d.resp.status = 401
        /\ \E r \in store : r.active

\* C4: after an EXPIRATION is processed for a key that has a record, the
\* record has active = false, metadata status 'expired', and the product_id,
\* platform and expires_at it had before the event.
C4_ExpirationDeactivatesAndPreserves ==
    \A d \in done :
        (d.carried = EXPIRATION /\ d.wrote /\ d.before # {}) =>
            /\ d.after # {}
            /\ ~Row(d.after).active
            /\ Row(d.after).metadata.status = "expired"
            /\ Row(d.after).product_id = Row(d.before).product_id
            /\ Row(d.after).platform = Row(d.before).platform
            /\ Row(d.after).expires_at = Row(d.before).expires_at

C4_Witness ==
    \E d \in done :
        /\ d.carried = EXPIRATION /\ d.wrote /\ d.before # {}
        /\ Row(d.before).active
        /\ Row(d.before).product_id # EventOf(d).product_id
        /\ ~Row(d.after).active

\* C5: a record that is inactive stays inactive through CANCELLATION,
\* BILLING_ISSUE and unknown events for its key, and an Activation that is
\* processed makes the record active whatever it was before.
C5_InactiveUntilActivation ==
    \A d \in done :
        /\ (d.ev # {} /\ d.carried \in {CANCELLATION, BILLING_ISSUE} \cup UnknownTypes
              /\ d.before # {} /\ ~Row(d.before).active)
              => (d.after # {} /\ ~Row(d.after).active)
        /\ (IsActivation(d) /\ d.wrote) => (d.after # {} /\ Row(d.after).active)

\* C6 (as stated): after an Activation whose write succeeded the record is
\* active with status 'active', and its expires_at, product_id and platform
\* are the values the event supplied.
C6_ActivationWritesEventValues ==
    \A d \in done :
        (IsActivation(d) /\ d.wrote) =>
            /\ d.after # {}
            /\ Row(d.after).active
            /\ Row(d.after).metadata.status = "active"
            /\ Row(d.after).expires_at = ExpirationString(EventOf(d).expiration_at_ms)
            /\ Row(d.after).product_id = EventOf(d).product_id
            /\ Row(d.after).platform = EventOf(d).store

\* C6 (amended): after an Activation whose write succeeded the record is
\* active with status 'active', its product_id is the event's, its expires_at
\* is the event's expiration as an ISO string (null when the event has none),
\* and its platform is the event's store in lower case, whatever it held.
C6_ActivationWritesLowercasedStore ==
    \A d \in done :
        (IsActivation(d) /\ d.wrote) =>
            /\ d.after # {}
            /\ Row(d.after).active
            /\ Row(d.after).metadata.status = "active"
            /\ Row(d.after).expires_at =
                  (IF EventOf(d).expiration_at_ms = 0 THEN Null
                   ELSE DateToISOString(EventOf(d).expiration_at_ms))
            /\ Row(d.after).product_id = EventOf(d).product_id
            /\ Row(d.after).platform \in {"app_store", "play_store"}
            /\ (EventOf(d).store = "APP_STORE") = (Row(d.after).platform = "app_store")

C6_Witness ==
    \E d \in done :
        /\ d.carried = PRODUCT_CHANGE /\ d.wrote
        /\ d.before # {} /\ ~Row(d.before).active
        /\ EventOf(d).store = "APP_STORE"
        /\ Row(d.after).platform = "app_store"
        /\ Row(d.after).expires_at = Null

\* C7: after a CANCELLATION is processed the record of its key is active,
\* has metadata status 'cancelled', and expires when the event says.
C7_CancellationKeepsActiveWithEventExpiry ==
    \A d \in done :
        (d.carried = CANCELLATION /\ d.wrote) =>
            /\ d.after # {}
            /\ Row(d.after).active
            /\ Row(d.after).metadata.status = "cancelled"
            /\ Row(d.after).expires_at =
                  (IF EventOf(d).expiration_at_ms = 0 THEN Null
                   ELSE DateToISOString(EventOf(d).expiration_at_ms))

C7_Witness ==
    \E d \in done :
        /\ d.carried = CANCELLATION /\ d.wrote /\ d.before # {}
        /\ Row(d.before).expires_at = "1970-01-02T00:00:00.000Z"
        /\ Row(d.after).expires_at = "1970-01-22T21:57:36.789Z"
        /\ Row(d.after).metadata.status = "cancelled"

\* C8: an authenticated POST whose event type is none of the seven known
\* types is answered 200 'processed' and reads, writes and triggers nothing.
C8_UnknownTypeAlwaysProcessed ==
    \A d \in done :
        (d.method = "POST" /\ expectedAuth # Undefined /\ d.auth = expectedAuth
            /\ d.carried \in UnknownTypes) =>
            IsProcessed(d) /\ NoStoreAccess(d)

\* C9: a request that launched the insights trigger is answered 200
\* 'processed' and the record it wrote stays as written, whether the trigger
\* threw at once, settled with any outcome, or is still out.
C9_TriggerOutcomeNeverReachesRequest ==
    \A d \in done :
        d.fired =>
            /\ d.resp = ProcessedResponse(d.carried, EventOf(d).environment,
                                          EventOf(d).original_app_user_id)
            /\ d.wrote /\ d.after # {} /\ Row(d.after).active
            /\ d.after \subseteq store

C9_Witness ==
    \E d \in done :
        /\ d.fired /\ IsProcessed(d)
        /\ pending[EventOf(d).original_app_user_id] = 0

\* C10: when a new-purchase Activation of the premium entitlement is
\* delivered again after its first delivery completed and fired the trigger,
\* the second delivery fires nothing.
C10_ReplayFiresNothing ==
    \A d \in done :
        (d.replay /\ d.prevFired /\ IsActivation(d) /\ IsPremium(d) /\ IsProcessed(d))
            => ~d.fired

\* the record one delivery of the Activation event of d leaves, written at time 0
SingleDeliveryRow(d) ==
    Row(Upsert({}, ActivationPayload([ev |-> EventOf(d),
                                      userId |-> EventOf(d).original_app_user_id,
                                      entitlementId |-> EntitlementId(EventOf(d)),
                                      existing |-> {}], 0)))

\* C11: when two deliveries of the same Activation event overlap (both read
\* the record before either writes it) and both are processed, the record left
\* is the one a single delivery leaves and the trigger is fired by at most one
\* of the two.
C11_OverlappingDuplicatesFireOnce ==
    \A d \in done :
        (IsActivation(d) /\ d.sibling # "none" /\ d.read = "ok" /\ d.wrote) =>
            /\ d.after # {}
            /\ WithoutProcessingTimes(Row(d.after)) = WithoutProcessingTimes(SingleDeliveryRow(d))
            /\ ~(d.sibling = "fired" /\ d.fired)

\* C12: while the expected secret is not configured, every POST is answered
\* 500 'Server configuration error' whatever its Authorization header, and
\* no request has its body parsed, reads or writes the store or launches the
\* trigger; the same holds of a POST whose header differs from a configured
\* secret.
C12_UnconfiguredSecretFailsClosed ==
    /\ expectedAuth = Undefined =>
          /\ \A s \in Slots : inflight[s] = {}
          /\ store \in InitialStores /\ now = 0
          /\ \A u \in Users : pending[u] = 0
    /\ \A d \in done :
          /\ (d.method = "POST" /\ expectedAuth = Undefined) =>
                d.resp = ConfigErrorResponse /\ ~d.parsed /\ NoStoreAccess(d)
          /\ (d.method = "POST" /\ expectedAuth # Undefined /\ d.auth # expectedAuth) =>
                ~d.parsed /\ NoStoreAccess(d)

C12_Witness ==
    /\ expectedAuth = Undefined
    /\ nreq = MaxRequests
    /\ \E d \in done :
          /\ d.method = "POST" /\ d.auth = Secret /\ d.carried = INITIAL_PURCHASE
          /\ d.resp.status = 500 /\ d.resp.body.error = "Server configuration error"

\* C13: a request with method OPTIONS is answered 204 and a request with a
\* method other than POST and OPTIONS is answered 405, whatever its
\* Authorization header and whether or not the secret is configured, without
\* its body being parsed, the store read or written, or the trigger launched.
C13_MethodCheckComesFirst ==
    \A d \in done :
        /\ d.method = "OPTIONS" => d.resp = PreflightResponse
        /\ d.method \notin {"OPTIONS", "POST"} => d.resp = MethodNotAllowedResponse
        /\ d.method # "POST" => ~d.parsed /\ NoStoreAccess(d)

C13_Witness ==
    \E d \in done :
        /\ d.method = "GET" /\ d.auth = "wrong-secret" /\ d.resp.status = 405
        /\ expectedAuth = Secret
        /\ \E r \in store : r.active

\* the request d met an exception after the authorization check: its body
\* could not be parsed or lacked a field, the select of a handler that looks
\* at its error failed, or its upsert failed
Threw(d) ==
    /\ d.parsed
    /\ \/ d.ev = {}
       \/ d.read = "failed" /\ ~IsActivation(d)
       \/ d.read # "none" /\ ~d.wrote
            /\ ~(d.carried = BILLING_ISSUE /\ d.read = "ok" /\ d.before = {})

\* C16: every request that met an exception after the authorization check is
\* answered 500 with exactly the body {status: 'error', message: 'Server
\* error processing webhook'}, and no response of the webhook carries the
\* text of an internal error.
C16_ErrorsGetTheFixedBody ==
    \A d \in done :
        /\ Threw(d) =>
              d.resp = [status |-> 500,
                        body |-> [status |-> "error",
                                  message |-> "Server error processing webhook"]]
        /\ (d.parsed /\ d.resp.status # 200) => Threw(d)
        /\ \A k \in DOMAIN d.resp.body, c \in Causes : d.resp.body[k] # ErrorMessage(c)

C16_Witness ==
    \E d \in done :
        /\ d.carried = EXPIRATION /\ d.read = "failed" /\ ~d.wrote
        /\ d.resp.status = 500
        /\ d.resp.body.message = "Server error processing webhook"
        /\ \E r \in store : r.active

\* C17 (as stated): a CANCELLATION processed for a key that has a record
\* leaves the record's expires_at as it was.
C17_CancellationKeepsStoredExpiry ==
    \A d \in done :
        (d.carried = CANCELLATION /\ d.wrote /\ d.before # {}) =>
            /\ d.after # {}
            /\ Row(d.after).expires_at = Row(d.before).expires_at

\* C17 (amended): a CANCELLATION processed for a key that has a record
\* replaces the record's expires_at by the event's expiration, and by null
\* when the event carries none, so the stored expiry is lost; product_id and
\* platform stay as stored.
C17_CancellationReplacesStoredExpiry ==
    \A d \in done :
        (d.carried = CANCELLATION /\ d.wrote /\ d.before # {}) =>
            /\ d.after # {}
            /\ EventOf(d).expiration_at_ms = 0 => Row(d.after).expires_at = Null
            /\ EventOf(d).expiration_at_ms # 0 =>
                  Row(d.after).expires_at = DateToISOString(EventOf(d).expiration_at_ms)
            /\ Row(d.after).product_id = Row(d.before).product_id
            /\ Row(d.after).platform = Row(d.before).platform

C17_Witness ==
    \E d \in done :
        /\ d.carried = CANCELLATION /\ d.wrote /\ d.before # {}
        /\ EventOf(d).expiration_at_ms = 0
        /\ Row(d.before).expires_at = "1970-01-02T00:00:00.000Z"
        /\ Row(d.after).expires_at = Null
        /\ Row(d.after).active
        /\ Row(d.after).product_id = "p1"

\* the insights request i was served as a free user's
NonPremium(i) ==
    /\ ~i.hasProductA
    /\ Len(i.golfRounds) <= 1
    /\ i.productAccess = Null

\* C14: an insights request for user u that comes after an EXPIRATION of
\* u's product_a was processed, with no webhook step in between, finds no
\* active product_a record: it analyses at most one round and reports
\* productAccess null; so does every insights request whose permission query
\* failed.
C14_ExpiredUserGetsFreeInsights ==
    \A i \in insight :
        /\ \A d \in done :
              (d.carried = EXPIRATION /\ d.wrote /\ IsPremium(d)
                  /\ i.userId = EventOf(d).original_app_user_id) => NonPremium(i)
        /\ i.permFailed => NonPremium(i)

C14_Witness ==
    \E i \in insight, d \in done :
        /\ d.carried = EXPIRATION /\ d.wrote /\ IsPremium(d) /\ HadActiveRecord(d)
        /\ i.caller = "u1" /\ i.userId = "u1" /\ ~i.permFailed
        /\ i.status = 200
        /\ i.golfRounds = <<"r6">>
        /\ i.productAccess = Null

\* C15: the insights generator reads and returns the rounds and shots of the
\* user its caller's token authenticates, and of no other: a request without
\* a valid user token is served nobody's data.
C15_InsightsOnlyForAuthenticatedCaller ==
    \A i \in insight :
        /\ i.readOf # Null => i.readOf = i.caller
        /\ i.caller = Null => i.status # 200

\* C18: a request whose select failed, in whichever handler, performs no
\* upsert, launches no trigger and is answered with the generic 500.
C18_ReadFailureAborts ==
    \A d \in done :
        d.read = "failed" =>
            /\ ~d.wrote /\ ~d.fired
            /\ d.resp = ServerErrorResponse
            /\ d.after = d.before

\* C19: every step of the system performs at most one upsert and launches at
\* most one trigger, and only the step that ends a request does either; when
\* the upsert failed the request is answered with the generic 500, the table
\* is as it was and no trigger is launched; a trigger is launched only by an
\* Activation whose own upsert succeeded.
C19_FailedWriteSkipsTheRest ==
    [][ /\ now' \in {now, now + 1}
        /\ \A u \in Users : pending'[u] <= pending[u] + 1
        /\ (store' # store \/ \E u \in Users : pending'[u] > pending[u]) => now' = now + 1
        /\ now' = now + 1 =>
              /\ \E s \in Slots : inflight[s] # {} /\ inflight'[s] = {}
              /\ \E d \in done' :
                    /\ ~d.wrote => /\ d.resp = ServerErrorResponse
                                   /\ ~d.fired
                                   /\ store' = store
                                   /\ pending' = pending
                    /\ d.fired => /\ d.wrote /\ IsActivation(d)
                                  /\ d.after # {} /\ d.after \subseteq store'
                    /\ (\E u \in Users : pending'[u] > pending[u]) => d.fired
      ]_vars

C19_Witness ==
    \E d \in done :
        /\ IsActivation(d) /\ IsPremium(d) /\ ~HadActiveRecord(d)
        /\ d.read = "ok" /\ ~d.wrote
        /\ d.resp.status = 500
        /\ ~d.fired
        /\ store = d.storeBefore
        /\ \A u \in Users : pending[u] = 0

\* C20: a record exists only for a key an Activation was processed for:
\* a CANCELLATION, EXPIRATION or BILLING_ISSUE for a key without a record
\* leaves the key without a record.
C20_OnlyActivationCreatesRecords ==
    \A d \in done :
        (d.ev # {} /\ d.before = {} /\ d.after # {}) => IsActivation(d)

\* the rows of store that hold the key of row r
SameKey(rows, r) ==
    {q \in rows : q.profile_id = r.profile_id /\ q.permission_id = r.permission_id}

\* C21: a step that takes a record from active = true to active = false (or
\* removes it) is the upsert of a processed EXPIRATION; no Activation,
\* CANCELLATION, BILLING_ISSUE or unknown event and no rejected or failed
\* request does it.
C21_OnlyExpirationRevokes ==
    [][ \A r \in store :
            (r.active /\ \A q \in SameKey(store', r) : ~q.active) =>
                \E d \in done' :
                    /\ d.carried = EXPIRATION /\ d.wrote /\ IsProcessed(d)
                    /\ EventOf(d).original_app_user_id = r.profile_id
                    /\ EntitlementId(EventOf(d)) = r.permission_id
      ]_vars

C21_Witness ==
    \E d \in done :
        /\ d.carried = BILLING_ISSUE /\ d.wrote
        /\ HadActiveRecord(d)
        /\ Row(d.before).metadata.status = "cancelled"
        /\ Row(d.after).active

\* C22: a BILLING_ISSUE for a key without a record writes nothing and is
\* answered 200; for a key with a record it leaves the record with active =
\* true and the billing-issue flag (with its detection time) set in its
\* metadata, every other metadata entry, expires_at, product_id and platform
\* being what they were.
C22_BillingIssueFlagsExistingRecord ==
    \A d \in done :
        (d.carried = BILLING_ISSUE /\ d.ev # {}) =>
            /\ (d.before = {} /\ d.read = "ok") =>
                  ~d.wrote /\ ~d.fired /\ IsProcessed(d) /\ d.after = {}
                      /\ store = d.storeBefore
            /\ (d.before # {} /\ d.wrote) =>
                  /\ IsProcessed(d) /\ d.after # {}
                  /\ Row(d.after).active
                  /\ Row(d.after).metadata.billing_issue = TRUE
                  /\ \A k \in DOMAIN Row(d.before).metadata
                              \ {"billing_issue", "billing_issue_detected_at", "source"} :
                        /\ k \in DOMAIN Row(d.after).metadata
                        /\ Row(d.after).metadata[k] = Row(d.before).metadata[k]
                  /\ Row(d.after).expires_at = Row(d.before).expires_at
                  /\ Row(d.after).product_id = Row(d.before).product_id
                  /\ Row(d.after).platform = Row(d.before).platform

C22_Witness ==
    \E d \in done :
        /\ d.carried = BILLING_ISSUE /\ d.wrote /\ d.before # {}
        /\ Row(d.before).metadata.status = "active"
        /\ "billing_issue" \notin DOMAIN Row(d.before).metadata
        /\ Row(d.after).metadata.billing_issue = TRUE
        /\ Row(d.after).metadata.status = "active"
        /\ Row(d.after).metadata.transaction_id = "t1"

\* C23: every request that entered a handler is answered once its store
\* operations have returned, whether or not the insights call it launched
\* ever settles.
C23_ResponseDoesNotWaitForTrigger ==
    \A s \in Slots : (inflight[s] # {}) ~> (inflight[s] = {} /\ done # {})

C23_Witness ==
    \E d \in done :
        /\ d.fired /\ IsProcessed(d)
        /\ pending[EventOf(d).original_app_user_id] > 0
        /\ \A s \in Slots : inflight[s] = {}
        /\ nreq = MaxRequests

\* C24: in every reachable state of the table, whatever the order and the
\* interleaving of the requests, no two records hold the same (user,
\* entitlement) pair.
C24_OneRecordPerKey ==
    \A r1 \in store, r2 \in store :
        (r1.profile_id = r2.profile_id /\ r1.permission_id = r2.permission_id) => r1 = r2

C24_Witness ==
    \E d \in done :
        /\ d.carried = INITIAL_PURCHASE /\ d.wrote /\ d.before = {}
        /\ d.sibling # "none"
        /\ Cardinality(store) = 1
        /\ nreq = MaxRequests

C26_NoStaleWriteBack ==
    [][ \A d \in done' :
            (now' = now + 1 /\ d.wrote
                /\ d.carried \in {CANCELLATION, EXPIRATION, BILLING_ISSUE}) =>
                \A r \in store :
                    (r.profile_id = EventOf(d).original_app_user_id
                        /\ r.permission_id = EntitlementId(EventOf(d))) =>
                        \E q \in d.after : /\ q.product_id = r.product_id
                                           /\ q.platform = r.platform
      ]_vars

\* C27: in every reachable state of the table a record whose metadata status
\* is 'expired' has active = false and a record whose metadata status is
\* 'active' or 'cancelled' has active = true.
C27_StatusAgreesWithActive ==
    \A r \in store :
        /\ r.metadata.status = "expired" => ~r.active
        /\ r.metadata.status \in {"active", "cancelled"} => r.active

----------------------------------------------------------------------------
(* The client purchase service *)

\* The operations that open with the guard on isConfigured
GuardedOps == {"getOfferings", "getCustomerInfo", "purchasePremiumInsights",
               "restorePurchases"}

\* The calls of Purchases.purchasePackage among the SDK calls of one call
PurchaseCalls(sdk) == Cardinality({i \in DOMAIN sdk : sdk[i] = "purchasePackage"})

C29_FlagAndUserConsistent ==
    /\ ~isConfigured => currentUserId = Null
    /\ loggedOut => ~isConfigured

\* C30: purchasePremiumInsights never throws; it returns a success result,
\* {cancelled: true} without an error exactly when purchasePackage was
\* rejected with USER_CANCELLED, or {error}; purchasePackage is called at
\* most once, and only after the pre-flight diagnostic found the expected
\* product and a package for it was located.
C30_PurchaseResolvesToOneOfThree ==
    /\ \A d \in outcome :
          d.op = "purchasePremiumInsights" =>
             /\ ~d.threw
             /\ d.result \in {"success", "cancelled", "error"}
             /\ d.result = "error" <=> d.error # {}
             /\ d.result = "cancelled" <=>
                   /\ PurchaseCalls(d.sdk) = 1
                   /\ \E e \in d.rejected : e.code = "USER_CANCELLED"
             /\ d.result = "success" => PurchaseCalls(d.sdk) = 1 /\ d.rejected = {}
             /\ PurchaseCalls(d.sdk) <= 1
             /\ PurchaseCalls(d.sdk) = 1 => d.found /\ d.located
    /\ \A c \in Calls : \A call \in calls[c] :
          call.op = "purchasePremiumInsights" =>
             /\ PurchaseCalls(call.sdk) <= 1
             /\ PurchaseCalls(call.sdk) = 1 => call.found /\ call.located

\* The user cancels the purchase sheet after both fetches found the product
C30_Witness ==
    \E d \in outcome :
        /\ d.op = "purchasePremiumInsights"
        /\ d.result = "cancelled"
        /\ d.sdk = <<"getOfferings", "getOfferings", "purchasePackage">>

====
